---- MODULE Spec2Model ----
(***************************************************************************)
(* A model of pygridder.Gridder (src/pygridder/__init__.py): construction  *)
(* of the cell-center point list and its nearest-neighbour index, the      *)
(* lookup _kdtree_query, and grid_points, grid_lines and grid_polygons.    *)
(*                                                                         *)
(* Coordinates, distances and dx are counted in HALVES of a coordinate     *)
(* unit, so that the half-interval offsets of lines 33-36 are whole        *)
(* numbers: the value 3 stands for the coordinate 1.5.  An array is a      *)
(* record [shape, dtype, data] with data the row-major (ravelled) values.  *)
(* A Gridder is immutable once built (no method assigns to self), so a     *)
(* behaviour builds one Gridder and makes one call on it.                  *)
(***************************************************************************)
EXTENDS Integers, Sequences, FiniteSets, TLC

VARIABLES pc, caller, self, args, ret

vars == <<pc, caller, self, args, ret>>

(* Bounds of the model. *)
MaxR == 2
MaxC == 5
MaxN == 2

(* ------------------------------------------------------------------ *)
(* Generic helpers                                                     *)
(* ------------------------------------------------------------------ *)
Min(a, b) == IF a <= b THEN a ELSE b

Max(a, b) == IF a >= b THEN a ELSE b

Abs(a) == IF a >= 0 THEN a ELSE -a

BSeq(S, n) == UNION {[1..k -> S] : k \in 0..n}

RECURSIVE SeqProduct(_)
SeqProduct(ss) ==
    IF ss = <<>> THEN {<<>>}
    ELSE {<<h>> \o t : h \in Head(ss), t \in SeqProduct(Tail(ss))}

(* zip(a, b): stops at the shorter of the two. *)
Zip(a, b) == [k \in 1..Min(Len(a), Len(b)) |-> <<a[k], b[k]>>]

(* ------------------------------------------------------------------ *)
(* numpy arrays                                                        *)
(* ------------------------------------------------------------------ *)
NRows(a) == a.shape[1]

NCols(a) == a.shape[2]

Size(a) == NRows(a) * NCols(a)

(* a[r, c], 0-based. *)
At(a, r, c) == a.data[r * NCols(a) + c + 1]

Ravel(a) == a.data

(* Storing a float into an int64 array truncates toward zero.  v is in    *)
(* halves, so the stored whole number is 2 * trunc(v / 2).                *)
CastTo(dtype, v) ==
    IF dtype = "float" THEN v
    ELSE IF v >= 0 THEN 2 * (v \div 2) ELSE -(2 * ((-v) \div 2))

(* (b - a) / 2. with a, b whole coordinates: b - a is even in halves.     *)
HalfDiff(a, b) == (b - a) \div 2

NoArray == [shape |-> <<0, 0>>, dtype |-> "float", data |-> <<>>]

(* ------------------------------------------------------------------ *)
(* Inputs of the constructor                                           *)
(* ------------------------------------------------------------------ *)
Shapes == (1..MaxR) \X (1..MaxC)

(* The shapes ty is given with a tx of shape s: the same shape, the      *)
(* transposed one, and the one that has one more row and column (the     *)
(* corners of the cells whose centers tx holds).                         *)
TyShapes(s) == {s, <<s[2], s[1]>>, <<s[1] + 1, s[2] + 1>>}

DTypes == {"int", "float"}

(* x-coordinates of a regular grid: column j lies at x = j. *)
GridX(shape, dtype) ==
    [shape |-> shape, dtype |-> dtype,
     data |-> [k \in 1..(shape[1] * shape[2]) |-> 2 * ((k - 1) % shape[2])]]

(* y-coordinates of a regular grid: row i lies at y = i. *)
GridY(shape, dtype) ==
    [shape |-> shape, dtype |-> dtype,
     data |-> [k \in 1..(shape[1] * shape[2]) |-> 2 * ((k - 1) \div shape[2])]]

(* dx: np.inf (the default), 0, or 1 coordinate unit. *)
Inf == [inf |-> TRUE, v |-> 0]

Finite(v) == [inf |-> FALSE, v |-> v]

DxSet == {Inf, Finite(0), Finite(2)}

(* ------------------------------------------------------------------ *)
(* Gridder.__init__                                                    *)
(* ------------------------------------------------------------------ *)
(* Lines 33-34: x[:, :-1] = tx[:, :-1] + (tx[:, 1:] - tx[:, :-1]) / 2.    *)
(*              x[:, -1] += (tx[:, -1] - tx[:, -2]) / 2.                  *)
CenterX(tx) ==
    LET C == NCols(tx)
        val(k) ==
            LET r == (k - 1) \div C
                c == (k - 1) % C
            IN  IF c < C - 1
                THEN At(tx, r, c) + HalfDiff(At(tx, r, c), At(tx, r, c + 1))
                ELSE At(tx, r, c) + HalfDiff(At(tx, r, C - 2), At(tx, r, C - 1))
    IN  [tx EXCEPT !.data = [k \in 1..Size(tx) |-> CastTo(tx.dtype, val(k))]]

(* Lines 35-36: y[:-1, :] = ty[:-1, :] + (ty[1:, :] - ty[:-1, :]) / 2.    *)
(*              y[-1, :] += (ty[-1, :] - ty[-2, :]) / 2.                  *)
CenterY(ty) ==
    LET R == NRows(ty)
        C == NCols(ty)
        val(k) ==
            LET r == (k - 1) \div C
                c == (k - 1) % C
            IN  IF r < R - 1
                THEN At(ty, r, c) + HalfDiff(At(ty, r, c), At(ty, r + 1, c))
                ELSE At(ty, r, c) + HalfDiff(At(ty, R - 2, c), At(ty, R - 1, c))
    IN  [ty EXCEPT !.data = [k \in 1..Size(ty) |-> CastTo(ty.dtype, val(k))]]

(* What lines 30-40 raise, "" when nothing.  tx[:, -2] and ty[-2, :] are  *)
(* IndexErrors on a single column or row; the in-place += of a float64    *)
(* into an integer array is refused by numpy (same_kind casting).         *)
InitError(tx, ty, centered) ==
    IF centered THEN ""
    ELSE IF NCols(tx) < 2 THEN "IndexError"
    ELSE IF tx.dtype = "int" THEN "UFuncTypeError"
    ELSE IF NRows(ty) < 2 THEN "IndexError"
    ELSE IF ty.dtype = "int" THEN "UFuncTypeError"
    ELSE ""

(* Line 44: np.asarray(list(zip(self.tx.ravel(), self.ty.ravel()))).      *)
TPoints(tx, ty) == Zip(Ravel(tx), Ravel(ty))

(* The Gridder that lines 28-45 build when nothing is raised. *)
NewGridder(tx, ty, dx, centered) ==
    LET cx == IF centered THEN tx ELSE CenterX(tx)
        cy == IF centered THEN ty ELSE CenterY(ty)
    IN  [tx |-> cx, ty |-> cy, dx |-> dx, tpoints |-> TPoints(cx, cy)]

NoGridder == [tx |-> NoArray, ty |-> NoArray, dx |-> Inf, tpoints |-> <<>>]

NoArgs == [op |-> "none"]

NoRet == [raised |-> "", val |-> <<>>]

Init ==
    /\ pc = "new"
    /\ caller = [tx |-> NoArray, ty |-> NoArray, dx |-> Inf, centered |-> FALSE]
    /\ self = NoGridder
    /\ args = NoArgs
    /\ ret = NoRet

Construct ==
    /\ pc = "new"
    /\ \E sx \in Shapes, dt \in DTypes, dx \in DxSet, centered \in BOOLEAN :
       \E sy \in TyShapes(sx) :
          LET tx == GridX(sx, dt)
              ty == GridY(sy, dt)
              err == InitError(tx, ty, centered)
          IN  /\ caller' = [tx |-> tx, ty |-> ty, dx |-> dx, centered |-> centered]
              /\ IF err = ""
                 THEN /\ self' = NewGridder(tx, ty, dx, centered)
                      /\ ret' = NoRet
                      /\ pc' = "ready"
                 ELSE /\ self' = NoGridder
                      /\ ret' = [raised |-> err, val |-> <<>>]
                      /\ pc' = "failed"
    /\ UNCHANGED args

(* ------------------------------------------------------------------ *)
(* scipy.spatial.cKDTree.query(points, k=1, distance_upper_bound=dx)   *)
(* ------------------------------------------------------------------ *)
(* Squared Euclidean distance (the tree compares squared distances). *)
Dist2(p, q) == (p[1] - q[1]) * (p[1] - q[1]) + (p[2] - q[2]) * (p[2] - q[2])

(* A neighbour is kept when its distance is strictly below the bound. *)
WithinBound(d2, dx) == dx.inf \/ d2 < dx.v * dx.v

MinDist2(tpoints, q) ==
    CHOOSE m \in {Dist2(tpoints[k], q) : k \in 1..Len(tpoints)} :
        \A k \in 1..Len(tpoints) : m <= Dist2(tpoints[k], q)

(* The 0-based indices the query may return for q: a nearest point (which *)
(* of several equally near ones depends on the tree's layout), or the     *)
(* point count n when no point is within the bound.                       *)
QueryOne(tpoints, dx, q) ==
    LET m == MinDist2(tpoints, q)
    IN  IF WithinBound(m, dx)
        THEN {k - 1 : k \in {j \in 1..Len(tpoints) : Dist2(tpoints[j], q) = m}}
        ELSE {Len(tpoints)}

TreeQuery(tpoints, dx, points) ==
    SeqProduct([k \in 1..Len(points) |-> QueryOne(tpoints, dx, points[k])])

(* ------------------------------------------------------------------ *)
(* Gridder._kdtree_query                                               *)
(* ------------------------------------------------------------------ *)
(* A "number or iterable of numbers": [iter, items]; a bare number is    *)
(* iter = FALSE with its value as the one item.                           *)
Iterable(s) == [iter |-> TRUE, items |-> s]

Scalar(v) == [iter |-> FALSE, items |-> <<v>>]

(* Lines 57-60: zip(x, y), or zip([x], [y]) after the TypeError. *)
QueryPoints(x, y) == Zip(x.items, y.items)

(* Line 62: np.where(inds >= len(self.tpoints))[0], positions from 1. *)
BadInds(inds, n) == {k \in 1..Len(inds) : inds[k] >= n}

(* Line 63 with the surviving indices sorted. *)
RECURSIVE SortedFrom(_, _)
SortedFrom(inds, v) ==
    IF \A k \in 1..Len(inds) : inds[k] < v THEN <<>>
    ELSE SelectSeq(inds, LAMBDA i : i = v) \o SortedFrom(inds, v + 1)

DeleteSorted(inds, bad) ==
    SortedFrom([k \in 1..(Len(inds) - Cardinality(bad)) |->
                   LET kept == {j \in 1..Len(inds) : j \notin bad}
                   IN  inds[CHOOSE j \in kept :
                              Cardinality({i \in kept : i < j}) = k - 1]], 0)

(* Line 63: np.delete(inds, bad_inds). *)
RECURSIVE DeleteFrom(_, _, _)
DeleteFrom(inds, bad, k) ==
    IF k > Len(inds) THEN <<>>
    ELSE (IF k \in bad THEN <<>> ELSE <<inds[k]>>) \o DeleteFrom(inds, bad, k + 1)

Delete(inds, bad) == DeleteFrom(inds, bad, 1)

(* Line 64 with the two index arrays taken the other way round. *)
UnravelIndexSwapped(inds, shape) ==
    [rows |-> [k \in 1..Len(inds) |-> inds[k] % shape[2]],
     cols |-> [k \in 1..Len(inds) |-> inds[k] \div shape[2]]]

(* Line 64: np.unravel_index(inds, shape), row-major. *)
UnravelIndex(inds, shape) ==
    [rows |-> [k \in 1..Len(inds) |-> inds[k] \div shape[2]],
     cols |-> [k \in 1..Len(inds) |-> inds[k] % shape[2]]]

(* What the lookup does with the indices the tree returned. *)
FilterHits(g, inds) ==
    UnravelIndex(Delete(inds, BadInds(inds, Len(g.tpoints))), g.tx.shape)

(* The outcomes of _kdtree_query(x, y).  An empty batch is an array of    *)
(* shape (0,), which cKDTree.query rejects: its last axis is not 2.       *)
KdtreeQuery(g, x, y) ==
    LET points == QueryPoints(x, y)
    IN  IF Len(points) = 0
        THEN {[raised |-> "ValueError", rows |-> <<>>, cols |-> <<>>]}
        ELSE {[raised |-> ""] @@ FilterHits(g, inds) :
                 inds \in TreeQuery(g.tpoints, g.dx, points)}

(* ------------------------------------------------------------------ *)
(* Gridder.grid_points                                                 *)
(* ------------------------------------------------------------------ *)
(* Coordinates of the query points: on a cell center, between two, far. *)
QX == {0, 3, 9}

QY == {0, 3}

(* Lines 85-87.  q is the outcome of the lookup of line 85. *)
GridPointsReturn(q) ==
    IF q.raised # "" THEN [raised |-> q.raised, val |-> <<>>, q |-> q]
    ELSE [raised |-> "", val |-> Zip(q.rows, q.cols), q |-> q]

GridPoints ==
    /\ pc = "ready"
    /\ \E xs \in BSeq(QX, MaxN), ys \in BSeq(QY, MaxN) :
          \E q \in KdtreeQuery(self, Iterable(xs), Iterable(ys)) :
             /\ args' = [op |-> "grid_points", xs |-> Iterable(xs), ys |-> Iterable(ys)]
             /\ ret' = GridPointsReturn(q)
    /\ pc' = "returned"
    /\ UNCHANGED <<caller, self>>

GridPoint ==
    /\ pc = "ready"
    /\ \E x \in QX, y \in QY :
          \E q \in KdtreeQuery(self, Scalar(x), Scalar(y)) :
             /\ args' = [op |-> "grid_points", xs |-> Scalar(x), ys |-> Scalar(y)]
             /\ ret' = GridPointsReturn(q)
    /\ pc' = "returned"
    /\ UNCHANGED <<caller, self>>

(* ------------------------------------------------------------------ *)
(* skimage.draw.line(r0, c0, r1, c1), as called on line 102            *)
(* ------------------------------------------------------------------ *)
(* The loop "for i in range(dc)" of the Bresenham walk: the cells i..dc-1. *)
RECURSIVE LineCells(_, _, _, _, _, _, _, _, _)
LineCells(i, r, c, d, dr, dc, sr, sc, steep) ==
    IF i >= dc THEN <<>>
    ELSE LET cell == IF steep THEN <<c, r>> ELSE <<r, c>>
             n == IF d >= 0 THEN d \div (2 * dc) + 1 ELSE 0
         IN  <<cell>> \o LineCells(i + 1, r + n * sr, c + sc,
                                   d - n * 2 * dc + 2 * dr, dr, dc, sr, sc, steep)

SkLine(r0, c0, r1, c1) ==
    LET adr == Abs(r1 - r0)
        adc == Abs(c1 - c0)
        sc0 == IF c1 - c0 > 0 THEN 1 ELSE -1
        sr0 == IF r1 - r0 > 0 THEN 1 ELSE -1
        steep == adr > adc
        r == IF steep THEN c0 ELSE r0
        c == IF steep THEN r0 ELSE c0
        dr == IF steep THEN adc ELSE adr
        dc == IF steep THEN adr ELSE adc
        sr == IF steep THEN sc0 ELSE sr0
        sc == IF steep THEN sr0 ELSE sc0
    IN  LineCells(0, r, c, 2 * dr - dc, dr, dc, sr, sc, steep) \o <<<<r1, c1>>>>

(* ------------------------------------------------------------------ *)
(* Gridder.grid_lines                                                  *)
(* ------------------------------------------------------------------ *)
(* End points of the segments handed to grid_lines. *)
LinePts == {<<0, 0>>, <<9, 0>>, <<9, 9>>}

(* How many segments one call is given. *)
LineCounts == {0, 1, 2}

Xs(pts) == Iterable([k \in 1..Len(pts) |-> pts[k][1]])

Ys(pts) == Iterable([k \in 1..Len(pts) |-> pts[k][2]])

(* Line 102 with the arguments as (sx, ex, sy, ey). *)
DrawLinesArgsMixed(s, e) ==
    LET n == Min(Min(Len(s.rows), Len(s.cols)), Min(Len(e.rows), Len(e.cols)))
    IN  [k \in 1..n |-> SkLine(s.rows[k], e.rows[k], s.cols[k], e.cols[k])]

(* Line 102: one skdraw.line per zipped (sx, sy, ex, ey). *)
DrawLines(s, e) ==
    LET n == Min(Min(Len(s.rows), Len(s.cols)), Min(Len(e.rows), Len(e.cols)))
    IN  [k \in 1..n |-> SkLine(s.rows[k], s.cols[k], e.rows[k], e.cols[k])]

(* Lines 100-103.  s and e are the outcomes of the two lookups. *)
GridLinesReturn(s, e) ==
    IF s.raised # "" THEN [raised |-> s.raised, val |-> <<>>, s |-> s]
    ELSE IF e.raised # "" THEN [raised |-> e.raised, val |-> <<>>, s |-> s, e |-> e]
    ELSE [raised |-> "", val |-> DrawLines(s, e), s |-> s, e |-> e]

GridLines ==
    /\ pc = "ready"
    /\ \E n \in LineCounts :
          \E starts \in [1..n -> LinePts], ends \in [1..n -> LinePts] :
             \E s \in KdtreeQuery(self, Xs(starts), Ys(starts)),
                e \in KdtreeQuery(self, Xs(ends), Ys(ends)) :
                /\ args' = [op |-> "grid_lines", sxs |-> Xs(starts), sys |-> Ys(starts),
                            exs |-> Xs(ends), eys |-> Ys(ends)]
                /\ ret' = GridLinesReturn(s, e)
    /\ pc' = "returned"
    /\ UNCHANGED <<caller, self>>

(* ------------------------------------------------------------------ *)
(* Gridder.grid_polygons                                               *)
(* ------------------------------------------------------------------ *)
(* Vertices of the polygons handed to grid_polygons, how many vertices   *)
(* a polygon has and how many polygons one call is given.               *)
VertexPts == {<<0, 0>>, <<9, 0>>}

VertexCounts == {0, 1, 3}

PolyCounts == {0, 1, 2}

(* skdraw.polygon(_x, _y) and skdraw.polygon_perimeter(_x, _y) start by   *)
(* taking the minimum of the vertex rows: a ValueError on empty arrays.   *)
(* The cells they compute are not modelled: an entry of the result is     *)
(* the call that drew it.                                                 *)
SkDraw(fn, rows, cols) ==
    IF Len(rows) = 0 THEN [raised |-> "ValueError"]
    ELSE [raised |-> "", fn |-> fn, r |-> rows, c |-> cols]

(* Lines 122-135: the loop over zip(xinds, yinds) from polygon k on;      *)
(* a ValueError of the drawing routine skips the polygon.                 *)
RECURSIVE DrawPolys(_, _, _)
DrawPolys(fn, qs, k) ==
    IF k > Len(qs) THEN <<>>
    ELSE LET d == SkDraw(fn, qs[k].rows, qs[k].cols)
         IN  (IF d.raised = "ValueError" THEN <<>> ELSE <<d>>)
             \o DrawPolys(fn, qs, k + 1)

(* Lines 116-136.  qs are the outcomes of the lookups of line 119, which  *)
(* is outside any try: the first lookup that raises ends the call.        *)
GridPolygonsReturn(qs, fill) ==
    IF \E k \in 1..Len(qs) : qs[k].raised # ""
    THEN LET k == CHOOSE j \in 1..Len(qs) :
                     /\ qs[j].raised # ""
                     /\ \A i \in 1..(j - 1) : qs[i].raised = ""
         IN  [raised |-> qs[k].raised, val |-> <<>>, qs |-> SubSeq(qs, 1, k)]
    ELSE [raised |-> "",
          val |-> DrawPolys(IF fill THEN "polygon" ELSE "polygon_perimeter", qs, 1),
          qs |-> qs]

Polygons == UNION {[1..k -> VertexPts] : k \in VertexCounts}

GridPolygons ==
    /\ pc = "ready"
    /\ \E n \in PolyCounts, fill \in BOOLEAN :
          \E polys \in [1..n -> Polygons] :
             \E qs \in SeqProduct([k \in 1..n |->
                          KdtreeQuery(self, Xs(polys[k]), Ys(polys[k]))]) :
                /\ args' = [op |-> "grid_polygons",
                            xs |-> [k \in 1..n |-> Xs(polys[k])],
                            ys |-> [k \in 1..n |-> Ys(polys[k])],
                            fill |-> fill]
                /\ ret' = GridPolygonsReturn(qs, fill)
    /\ pc' = "returned"
    /\ UNCHANGED <<caller, self>>

Next ==
    \/ Construct
    \/ GridPoints
    \/ GridPoint
    \/ GridLines
    \/ GridPolygons

Spec == Init /\ [][Next]_vars

(* ------------------------------------------------------------------ *)
(* Vocabulary of the properties                                        *)
(* ------------------------------------------------------------------ *)
Returned(op) == pc = "returned" /\ args.op = op

(* The Gridder was built from tx and ty of one shape. *)
WellFormed == caller.tx.shape = caller.ty.shape

(* The query points of a call of grid_points, and whether x and y had    *)
(* the same length.                                                      *)
Queries == Zip(args.xs.items, args.ys.items)

EqualLengths == Len(args.xs.items) = Len(args.ys.items)

(* Cell i (0-based, row-major) of the grid of Gridder g. *)
CellOf(g, i) == <<i \div NCols(g.tx), i % NCols(g.tx)>>

(* The cells that have a center: one per point of the tree. *)
CellIds(g) == 0..(Len(g.tpoints) - 1)

CenterOf(g, i) == <<g.tx.data[i + 1], g.ty.data[i + 1]>>

Reaches(g, i, q) == g.dx.inf \/ Dist2(g.tpoints[i + 1], q) < g.dx.v * g.dx.v

IsNearest(g, i, q) ==
    \A j \in CellIds(g) : Dist2(g.tpoints[i + 1], q) <= Dist2(g.tpoints[j + 1], q)

(* q is a hit: some cell center is nearer than dx. *)
Hit(g, q) == \E i \in CellIds(g) : Reaches(g, i, q)

(* The cells nearest to a hit q. *)
NearestCells(g, q) ==
    {CellOf(g, i) : i \in {j \in CellIds(g) : IsNearest(g, j, q) /\ Reaches(g, j, q)}}

(* The positions of the hits among points, in increasing order. *)
RECURSIVE HitsFrom(_, _, _)
HitsFrom(g, points, k) ==
    IF k > Len(points) THEN <<>>
    ELSE (IF Hit(g, points[k]) THEN <<k>> ELSE <<>>) \o HitsFrom(g, points, k + 1)

HitPositions(g, points) == HitsFrom(g, points, 1)

(* cells lists, in order, a nearest cell of each hit of points. *)
IsHitsInOrder(g, points, cells) ==
    LET hp == HitPositions(g, points)
    IN  /\ Len(cells) = Len(hp)
        /\ \A k \in 1..Len(hp) : cells[k] \in NearestCells(g, points[hp[k]])

FlatIndex(g, cell) == cell[1] * NCols(g.tx) + cell[2]

PointsOf(x, y) == Zip(x.items, y.items)

(* ------------------------------------------------------------------ *)
(* C1                                                                  *)
(* ------------------------------------------------------------------ *)
(* C1: for every batch of N query points with x and y of equal length,   *)
(* grid_points returns the hits (the queries with a cell center within   *)
(* dx), each as (row, col) of its nearest cell, in query order, misses   *)
(* removed, nothing deduplicated; at most N cells; none when every       *)
(* query is a miss.                                                      *)
C1_GridPointsReturnsHitsInOrder ==
    (Returned("grid_points") /\ WellFormed /\ EqualLengths) =>
        /\ ret.raised = ""
        /\ IsHitsInOrder(self, Queries, ret.val)
        /\ Len(ret.val) <= Len(Queries)
        /\ ((\A k \in 1..Len(Queries) : ~Hit(self, Queries[k])) => ret.val = <<>>)

(* The same, for the batches that hold at least one point. *)
C1_NonEmptyBatches ==
    (Returned("grid_points") /\ WellFormed /\ EqualLengths /\ Len(Queries) >= 1) =>
        /\ ret.raised = ""
        /\ IsHitsInOrder(self, Queries, ret.val)
        /\ Len(ret.val) <= Len(Queries)
        /\ ((\A k \in 1..Len(Queries) : ~Hit(self, Queries[k])) => ret.val = <<>>)

(* ------------------------------------------------------------------ *)
(* C2                                                                  *)
(* ------------------------------------------------------------------ *)
(* A lookup of the single point q. *)
SingleQuery == Returned("grid_points") /\ Len(Queries) = 1 /\ EqualLengths

(* C2 as stated: for every dx >= 0, dx = 0 included, a lookup of a point *)
(* equal to the center of cell (r, c) returns exactly that cell.         *)
C2_CenterFoundForEveryDx ==
    (SingleQuery /\ WellFormed) =>
        \A i \in CellIds(self) :
            CenterOf(self, i) = Queries[1] =>
                ret.raised = "" /\ ret.val = <<CellOf(self, i)>>

(* C2, amended: for every dx > 0, a lookup of a point equal to the       *)
(* center of cell (r, c) returns exactly one cell, whose center is that  *)
(* point; it is (r, c) itself when no other cell has the same center.    *)
(* With dx = 0 the point is dropped.                                     *)
C2_CenterFoundForPositiveDx ==
    SingleQuery =>
        \A i \in CellIds(self) :
            CenterOf(self, i) = Queries[1] =>
                IF self.dx.inf \/ self.dx.v > 0
                THEN /\ ret.raised = ""
                     /\ Len(ret.val) = 1
                     /\ \E j \in CellIds(self) :
                           /\ ret.val[1] = CellOf(self, j)
                           /\ CenterOf(self, j) = Queries[1]
                     /\ (\A j \in CellIds(self) :
                            CenterOf(self, j) = Queries[1] => j = i)
                        => ret.val = <<CellOf(self, i)>>
                ELSE ret.raised = "" /\ ret.val = <<>>

(* A point at the center of the last cell of a grid of several cells,    *)
(* looked up with dx = 1, is returned as that cell.                      *)
C2_Witness ==
    /\ SingleQuery /\ WellFormed
    /\ ~self.dx.inf /\ self.dx.v > 0
    /\ Len(self.tpoints) > 1
    /\ CenterOf(self, Len(self.tpoints) - 1) = Queries[1]
    /\ ret.val = <<CellOf(self, Len(self.tpoints) - 1)>>

(* ------------------------------------------------------------------ *)
(* C3                                                                  *)
(* ------------------------------------------------------------------ *)
(* C3 as stated: the rows and cols a lookup returns have equal length    *)
(* and list the cells in increasing flat-index order, whatever the order *)
(* of the query points.                                                  *)
C3_OutputInIncreasingFlatOrder ==
    (Returned("grid_points") /\ WellFormed /\ ret.raised = "") =>
        /\ Len(ret.q.rows) = Len(ret.q.cols)
        /\ \A k \in 1..(Len(ret.q.rows) - 1) :
              FlatIndex(self, <<ret.q.rows[k], ret.q.cols[k]>>)
                 <= FlatIndex(self, <<ret.q.rows[k + 1], ret.q.cols[k + 1]>>)

(* C3, amended: the rows and cols a lookup returns have equal length and *)
(* list the matched cells in the order of the query points that hit (the *)
(* flat indices need not increase).                                      *)
C3_OutputInQueryOrder ==
    (Returned("grid_points") /\ ret.raised = "") =>
        /\ Len(ret.q.rows) = Len(ret.q.cols)
        /\ IsHitsInOrder(self, Queries,
                         [k \in 1..Len(ret.q.rows) |-> <<ret.q.rows[k], ret.q.cols[k]>>])

(* Two hits within a finite dx, returned in query order with decreasing  *)
(* flat indices.                                                         *)
C3_Witness ==
    /\ Returned("grid_points") /\ WellFormed /\ ret.raised = ""
    /\ ~self.dx.inf
    /\ Len(ret.q.rows) = 2
    /\ FlatIndex(self, <<ret.q.rows[1], ret.q.cols[1]>>)
          > FlatIndex(self, <<ret.q.rows[2], ret.q.cols[2]>>)

(* ------------------------------------------------------------------ *)
(* C4                                                                  *)
(* ------------------------------------------------------------------ *)
(* C4: constructing a Gridder from tx and ty of different shapes fails   *)
(* (whatever the failure is called), for either value of centered, and   *)
(* leaves no Gridder with an index.                                      *)
C4_ShapeMismatchRejected ==
    (pc # "new" /\ caller.tx.shape # caller.ty.shape) =>
        pc = "failed" /\ self = NoGridder

(* ------------------------------------------------------------------ *)
(* C5                                                                  *)
(* ------------------------------------------------------------------ *)
(* C5: a lookup with x and y of different lengths fails (whatever the    *)
(* failure is called); it returns no result.                             *)
C5_LengthMismatchRejected ==
    (Returned("grid_points") /\ WellFormed /\ ~EqualLengths) => ret.raised # ""

(* ------------------------------------------------------------------ *)
(* C6                                                                  *)
(* ------------------------------------------------------------------ *)
(* C6: a lookup with empty x and y returns an empty result and raises    *)
(* nothing.                                                              *)
C6_EmptyBatchReturnsEmpty ==
    (/\ Returned("grid_points") /\ WellFormed
     /\ args.xs.items = <<>> /\ args.ys.items = <<>>) =>
        ret.raised = "" /\ ret.val = <<>>

(* ------------------------------------------------------------------ *)
(* C7                                                                  *)
(* ------------------------------------------------------------------ *)
(* The half-interval center of corner (r, c) along the columns of a. *)
HalfStepAlongCols(a, r, c) ==
    IF c < NCols(a) - 1
    THEN At(a, r, c) + (At(a, r, c + 1) - At(a, r, c)) \div 2
    ELSE At(a, r, c) + (At(a, r, c) - At(a, r, c - 1)) \div 2

(* The half-interval center of corner (r, c) along the rows of a. *)
HalfStepAlongRows(a, r, c) ==
    IF r < NRows(a) - 1
    THEN At(a, r, c) + (At(a, r + 1, c) - At(a, r, c)) \div 2
    ELSE At(a, r, c) + (At(a, r, c) - At(a, r - 1, c)) \div 2

(* C7: for a grid of shape (R, C), R >= 2 and C >= 2, of any numeric     *)
(* type, built with centered=False, the stored centers are the exact     *)
(* half-interval offsets of the corners; with centered=True they are the *)
(* inputs.                                                               *)
C7_CentersAreHalfIntervalOffsets ==
    (/\ pc # "new"
     /\ caller.tx.shape = caller.ty.shape
     /\ NRows(caller.tx) >= 2 /\ NCols(caller.tx) >= 2) =>
        /\ pc # "failed"
        /\ self.tx.shape = caller.tx.shape /\ self.ty.shape = caller.ty.shape
        /\ \A r \in 0..(NRows(caller.tx) - 1), c \in 0..(NCols(caller.tx) - 1) :
              IF caller.centered
              THEN /\ At(self.tx, r, c) = At(caller.tx, r, c)
                   /\ At(self.ty, r, c) = At(caller.ty, r, c)
              ELSE /\ At(self.tx, r, c) = HalfStepAlongCols(caller.tx, r, c)
                   /\ At(self.ty, r, c) = HalfStepAlongRows(caller.ty, r, c)

(* The same, for the grids of floating-point coordinates. *)
C7_FloatGrids ==
    (/\ pc # "new"
     /\ caller.tx.dtype = "float"
     /\ caller.tx.shape = caller.ty.shape
     /\ NRows(caller.tx) >= 2 /\ NCols(caller.tx) >= 2) =>
        /\ pc # "failed"
        /\ self.tx.shape = caller.tx.shape /\ self.ty.shape = caller.ty.shape
        /\ \A r \in 0..(NRows(caller.tx) - 1), c \in 0..(NCols(caller.tx) - 1) :
              IF caller.centered
              THEN /\ At(self.tx, r, c) = At(caller.tx, r, c)
                   /\ At(self.ty, r, c) = At(caller.ty, r, c)
              ELSE /\ At(self.tx, r, c) = HalfStepAlongCols(caller.tx, r, c)
                   /\ At(self.ty, r, c) = HalfStepAlongRows(caller.ty, r, c)

(* ------------------------------------------------------------------ *)
(* C8                                                                  *)
(* ------------------------------------------------------------------ *)
(* line walks from start to end, both included, in max(|d_row|, |d_col|) *)
(* steps of at most one row and one column each.                         *)
IsLineWalk(line, start, end) ==
    /\ Len(line) = Max(Abs(end[1] - start[1]), Abs(end[2] - start[2])) + 1
    /\ line[1] = start
    /\ line[Len(line)] = end
    /\ \A k \in 1..(Len(line) - 1) :
          /\ Abs(line[k + 1][1] - line[k][1]) <= 1
          /\ Abs(line[k + 1][2] - line[k][2]) <= 1

(* C8: every line grid_lines returns walks from the start cell handed to *)
(* the rasterizer to the end cell, both included, in max(|d_row|,        *)
(* |d_col|) + 1 cells, one grid step at a time; (0,0) to (0,4) gives     *)
(* (0,0), (0,1), (0,2), (0,3), (0,4).                                    *)
C8_LinesAreWalks ==
    (Returned("grid_lines") /\ ret.raised = "") =>
        /\ \A k \in 1..Len(ret.val) :
              IsLineWalk(ret.val[k], <<ret.s.rows[k], ret.s.cols[k]>>,
                         <<ret.e.rows[k], ret.e.cols[k]>>)
        /\ \A k \in 1..Len(ret.val) :
              (/\ <<ret.s.rows[k], ret.s.cols[k]>> = <<0, 0>>
               /\ <<ret.e.rows[k], ret.e.cols[k]>> = <<0, 4>>)
              => ret.val[k] = <<<<0, 0>>, <<0, 1>>, <<0, 2>>, <<0, 3>>, <<0, 4>>>>

(* Two lines in one result: the one from (0,0) to (0,4), and one that    *)
(* changes row and column over more than two cells.                      *)
C8_Witness ==
    /\ Returned("grid_lines") /\ WellFormed /\ ret.raised = ""
    /\ \E k \in 1..Len(ret.val) :
          /\ <<ret.s.rows[k], ret.s.cols[k]>> = <<0, 0>>
          /\ <<ret.e.rows[k], ret.e.cols[k]>> = <<0, 4>>
    /\ \E k \in 1..Len(ret.val) :
          /\ Len(ret.val[k]) > 2
          /\ ret.s.rows[k] # ret.e.rows[k]
          /\ ret.s.cols[k] # ret.e.cols[k]

(* ------------------------------------------------------------------ *)
(* C9                                                                  *)
(* ------------------------------------------------------------------ *)
(* The polygons of a call of grid_polygons. *)
NumPolygons == Min(Len(args.xs), Len(args.ys))

PolygonPoints(k) == PointsOf(args.xs[k], args.ys[k])

(* Polygon k keeps fewer than 3 vertices after the lookup. *)
IsDegenerate(k) == Len(HitPositions(self, PolygonPoints(k))) < 3

(* The polygons that are not degenerate, in input order. *)
RECURSIVE KeptFrom(_)
KeptFrom(k) ==
    IF k > NumPolygons THEN <<>>
    ELSE (IF IsDegenerate(k) THEN <<>> ELSE <<k>>) \o KeptFrom(k + 1)

(* C9: grid_polygons never raises because a polygon is degenerate: such  *)
(* a polygon contributes nothing, the others contribute one cell set     *)
(* each in input order, and the output is no longer than the input.      *)
C9_DegeneratePolygonsSkipped ==
    (Returned("grid_polygons") /\ WellFormed) =>
        LET kept == KeptFrom(1)
        IN  /\ ret.raised = ""
            /\ Len(ret.val) <= NumPolygons
            /\ Len(ret.val) = Len(kept)
            /\ \A j \in 1..Len(kept) :
                  IsHitsInOrder(self, PolygonPoints(kept[j]),
                                Zip(ret.val[j].r, ret.val[j].c))

(* ------------------------------------------------------------------ *)
(* C10                                                                 *)
(* ------------------------------------------------------------------ *)
StartPoints == PointsOf(args.sxs, args.sys)

EndPoints == PointsOf(args.exs, args.eys)

(* Lines pair, in order, a nearest cell of each start that hit with a    *)
(* nearest cell of each end that hit, as far as both last.               *)
IsPairedPositionally(lines) ==
    LET hs == HitPositions(self, StartPoints)
        he == HitPositions(self, EndPoints)
    IN  /\ Len(lines) = Min(Len(hs), Len(he))
        /\ \A k \in 1..Len(lines) :
              /\ lines[k][1] \in NearestCells(self, StartPoints[hs[k]])
              /\ lines[k][Len(lines[k])] \in NearestCells(self, EndPoints[he[k]])

(* C10: grid_lines pairs the surviving start cells with the surviving    *)
(* end cells by position, min(#starts, #ends) lines in all; when every   *)
(* end point is within dx there is one line per input segment.           *)
C10_LinesPairedPositionally ==
    (Returned("grid_lines") /\ WellFormed) =>
        /\ ret.raised = ""
        /\ IsPairedPositionally(ret.val)
        /\ ((\A k \in 1..Len(StartPoints) :
                Hit(self, StartPoints[k]) /\ Hit(self, EndPoints[k]))
            => Len(ret.val) = Len(StartPoints))

(* The same, for the calls given at least one segment. *)
C10_NonEmptyCalls ==
    (Returned("grid_lines") /\ WellFormed /\ Len(StartPoints) >= 1) =>
        /\ ret.raised = ""
        /\ IsPairedPositionally(ret.val)
        /\ ((\A k \in 1..Len(StartPoints) :
                Hit(self, StartPoints[k]) /\ Hit(self, EndPoints[k]))
            => Len(ret.val) = Len(StartPoints))

====
